---- MODULE Spec2Model ----
(***************************************************************************)
(* Verification model of the `ar` crate of usd-rs:                         *)
(*   - package_utils.rs : package-relative path parsing                    *)
(*   - resolver_context/client_context.rs : type-erased context elements   *)
(*   - resolver_context/resolver_context_v2.rs : multi-slot context        *)
(*   - resolver_context/resolver_context_v1.rs : single-slot context       *)
(*   - resolver/v1/wrapper.rs : the preferred-resolver setting             *)
(* and of plugin/src/info/registration_metadata.rs of the `plugin` crate.  *)
(*                                                                         *)
(* A Rust `&str` is modelled as the sequence of its UTF-8 bytes, so that   *)
(* byte indices (str::len, char_indices, slicing) mean what they mean in   *)
(* the source.  Indices are 0-based as in Rust; At(s, i) reads byte i.     *)
(***************************************************************************)
EXTENDS Integers, Sequences, FiniteSets, TLC

VARIABLES
    path,       \* the &str argument of a path operation
    op,         \* the path operation that was called ("none" before the call)
    closing,    \* the closing_delimiter_index argument
    ret,        \* what the path operation returned
    lhs, rhs,   \* two context elements (Box<dyn ClientContext>)
    entry,      \* the comparison that was called on them ("none" before)
    frame,      \* the innermost active call of the comparison
    stack_depth,      \* number of active calls of the comparison
    status,     \* "idle", "running", "returned" or "stack_overflow"
    result,     \* what the comparison returned
    lctx, rctx, \* two contexts being compared: the Vec of elements of a multi-slot
                \* context, or the Option<Box<..>> of a single-slot context
    caller,     \* the suspended slice loop that called the element comparison
    ctxs,       \* multi-slot contexts the client holds: slot -> its buffer, or moved
    bufs,       \* heap: buffer -> the Vec<Box<dyn ClientContext>> stored there
    lastop,     \* the latest multi-slot operation and its arguments
    v1ctx,      \* single-slot contexts the client holds: slot -> context
    v1obs,      \* the latest single-slot query and what it returned
    PREFERRED_RESOLVER, \* the String in the static: its buffer and its length
    mutex,      \* the thread that holds the lock on the static, or Unlocked
    pc,         \* thread -> where it is in set/get_preferred_resolver
    local,      \* thread -> argument of its set, or what its get has read
    completed,  \* the string stored by the most recent completed set
    build,      \* the build of the plugin crate: "std" or "no_std"
    metadata,   \* the deserialized RegistrationMetadata, or the serde error
    mobs        \* the latest path query on the metadata and what it returned

pathVars == <<path, op, closing, ret>>
ctxVars == <<lhs, rhs, entry, frame, stack_depth, status, result>>
cmpVars == <<lctx, rctx, caller>>
v2Vars == <<ctxs, bufs, lastop>>
v1Vars == <<v1ctx, v1obs>>
resVars == <<PREFERRED_RESOLVER, mutex, pc, local, completed>>
metaVars == <<build, metadata, mobs>>
vars == <<path, op, closing, ret, lhs, rhs, entry, frame, stack_depth, status,
          result, lctx, rctx, caller, ctxs, bufs, lastop, v1ctx, v1obs,
          PREFERRED_RESOLVER, mutex, pc, local, completed,
          build, metadata, mobs>>

----------------------------------------------------------------------------
(* Bounds *)

MaxLen == 5      \* longest free-form input path, in bytes
MaxOuter == 1    \* longest outer text O of a built path, in bytes
MaxInner == 4    \* longest inner text I of a built path, in bytes
MaxStack == 6    \* calls that fit on the stack before it overflows
MaxCmpLen == 2   \* most elements in a multi-slot context that is compared
MaxPathLen == 2  \* longest free-form Root, LibraryPath or ResourcePath, in characters
MaxElems == 3    \* most elements the client's multi-slot contexts hold together

----------------------------------------------------------------------------
(* Strings as UTF-8 byte sequences *)

LBr == "["
RBr == "]"
BSl == "\\"

\* 'é' (U+00E9) is the two bytes C3 A9: a character wider than one byte.
Lead == "C3"
Cont == "A9"
WideCh == "U+00E9"

Bytes == {LBr, RBr, BSl, "a", Lead, Cont}

ValidUtf8(s) ==
    \A k \in 1..Len(s) :
        /\ s[k] = Lead => (k < Len(s) /\ s[k + 1] = Cont)
        /\ s[k] = Cont => (k > 1 /\ s[k - 1] = Lead)

Strs(n) == {s \in UNION {[1..k -> Bytes] : k \in 0..n} : ValidUtf8(s)}

At(s, i) == s[i + 1]

\* Results of an operation: a value, or a panic (overflow check / slice check).
Ok(v) == <<"ok", v>>
Panic == <<"panic">>
IsPanic(r) == r[1] = "panic"
Val(r) == r[2]

\* Option<T>
None == <<"None">>
Some(x) == <<"Some", x>>
is_some(o) == o[1] = "Some"
unwrap(o) == o[2]

\* usize subtraction: `a - b` overflows (panics in debug builds) when b > a.
usize_sub(a, b) == IF b > a THEN Panic ELSE Ok(a - b)

is_empty(s) == Len(s) = 0

ends_with(s, ch) == Len(s) > 0 /\ s[Len(s)] = ch

is_char_boundary(s, i) ==
    \/ i = 0
    \/ i = Len(s)
    \/ (i < Len(s) /\ At(s, i) # Cont)

\* &s[a..b]: panics when the range is reversed, out of bounds, or cuts a char.
Slice(s, a, b) ==
    IF a <= b /\ b <= Len(s) /\ is_char_boundary(s, a) /\ is_char_boundary(s, b)
    THEN Ok(SubSeq(s, a + 1, b))
    ELSE Panic

\* str::char_indices: <<byte offset, char>> for every char, front to back.
RECURSIVE char_indices_from(_, _)
char_indices_from(s, i) ==
    IF i >= Len(s) THEN <<>>
    ELSE IF At(s, i) = Lead
         THEN <<<<i, WideCh>>>> \o char_indices_from(s, i + 2)
         ELSE <<<<i, At(s, i)>>>> \o char_indices_from(s, i + 1)

char_indices(s) == char_indices_from(s, 0)

rev(q) == [k \in 1..Len(q) |-> q[Len(q) + 1 - k]]

\* Mutant: only the first match is replaced (str::replacen(.., 1)).
replace_first(s, from, to) ==
    IF \E k \in 1..(Len(s) - Len(from) + 1) : SubSeq(s, k, k + Len(from) - 1) = from
    THEN LET k == CHOOSE k \in 1..(Len(s) - Len(from) + 1) :
                      /\ SubSeq(s, k, k + Len(from) - 1) = from
                      /\ \A j \in 1..(k - 1) : SubSeq(s, j, j + Len(from) - 1) # from
         IN SubSeq(s, 1, k - 1) \o to \o SubSeq(s, k + Len(from), Len(s))
    ELSE s

\* str::replace: every non-overlapping match, found left to right.
RECURSIVE replace(_, _, _)
replace(s, from, to) ==
    IF Len(s) < Len(from) THEN s
    ELSE IF SubSeq(s, 1, Len(from)) = from
         THEN to \o replace(SubSeq(s, Len(from) + 1, Len(s)), from, to)
         ELSE <<s[1]>> \o replace(Tail(s), from, to)

----------------------------------------------------------------------------
(* package_utils.rs *)

\* Mutant: the loop without the escape check.
RECURSIVE find_matching_loop_no_escape(_, _, _)
find_matching_loop_no_escape(it, closing_delimiter_index, num_open_needed) ==
    IF it = <<>> THEN None
    ELSE LET i == Head(it)[1]
             ch == Head(it)[2]
             rest == Tail(it)
             n == IF ch = LBr THEN num_open_needed - 1
                  ELSE IF ch = RBr THEN num_open_needed + 1
                  ELSE num_open_needed
         IN IF i >= closing_delimiter_index
            THEN find_matching_loop_no_escape(rest, closing_delimiter_index,
                                              num_open_needed)
            ELSE IF n = 0 THEN Some(i)
            ELSE find_matching_loop_no_escape(rest, closing_delimiter_index, n)

\* The `while let` loop of find_matching_opening_delimiter.  `it` is what is
\* left of the peekable reversed iterator; Head(it) is what next() yields and
\* Head(Tail(it)) is what peek() then sees.
RECURSIVE find_matching_loop(_, _, _)
find_matching_loop(it, closing_delimiter_index, num_open_needed) ==
    IF it = <<>> THEN None
    ELSE LET i == Head(it)[1]
             ch == Head(it)[2]
             rest == Tail(it)
         IN IF i >= closing_delimiter_index
            THEN find_matching_loop(rest, closing_delimiter_index, num_open_needed)
            ELSE IF ch = LBr \/ ch = RBr
            THEN IF rest # <<>> /\ Head(rest)[2] = BSl
                 THEN find_matching_loop(Tail(rest), closing_delimiter_index,
                                         num_open_needed)
                 ELSE LET n == IF ch = LBr THEN num_open_needed - 1
                                           ELSE num_open_needed + 1
                      IN IF n = 0 THEN Some(i)
                         ELSE find_matching_loop(rest, closing_delimiter_index, n)
            ELSE IF num_open_needed = 0 THEN Some(i)
                 ELSE find_matching_loop(rest, closing_delimiter_index,
                                         num_open_needed)

find_matching_opening_delimiter(p, closing_delimiter_index) ==
    find_matching_loop(rev(char_indices(p)), closing_delimiter_index, 1)

\* Mutant: Some(len - 1) without looking at the path.
find_outermost_closing_delimiter_unchecked(p) ==
    LET last == usize_sub(Len(p), 1)
    IN IF IsPanic(last) THEN Panic ELSE Ok(Some(Val(last)))

find_outermost_closing_delimiter(p) ==
    IF is_empty(p) \/ ~ends_with(p, RBr) THEN Ok(None)
    ELSE LET last == usize_sub(Len(p), 1)
         IN IF IsPanic(last) THEN Panic ELSE Ok(Some(Val(last)))

\* Mutant: the predicate without the ends_with(']') test.
is_package_relative_path_any_end(p) ==
    IF is_empty(p) THEN Ok(FALSE)
    ELSE LET last == usize_sub(Len(p), 1)
         IN IF IsPanic(last) THEN Panic
            ELSE Ok(is_some(find_matching_opening_delimiter(p, Val(last))))

is_package_relative_path(p) ==
    IF is_empty(p) THEN Ok(FALSE)
    ELSE IF ~ends_with(p, RBr) THEN Ok(FALSE)
    ELSE LET last == usize_sub(Len(p), 1)
         IN IF IsPanic(last) THEN Panic
            ELSE Ok(is_some(find_matching_opening_delimiter(p, Val(last))))

\* Mutant: only the opening bracket is unescaped.
unescape_delimiters_open_only(p) ==
    IF is_empty(p) THEN Ok(p)
    ELSE LET m == find_matching_opening_delimiter(p, Len(p) - 1)
             end == IF ends_with(p, RBr) THEN Len(p)
                    ELSE IF is_some(m) THEN unwrap(m)
                    ELSE Len(p)
         IN Ok(replace(SubSeq(p, 1, end), <<BSl, LBr>>, <<LBr>>)
                   \o SubSeq(p, end + 1, Len(p)))

unescape_delimiters(p) ==
    IF is_empty(p) THEN Ok(p)
    ELSE LET escape_range_begin == 0
             last == usize_sub(Len(p), 1)
             escape_range_end ==
                 IF ends_with(p, RBr) THEN Ok(Len(p))
                 ELSE IF IsPanic(last) THEN Panic
                 ELSE LET outer_open_index ==
                              find_matching_opening_delimiter(p, Val(last))
                      IN IF is_some(outer_open_index)
                         THEN Ok(unwrap(outer_open_index))
                         ELSE Ok(Len(p))
         IN IF IsPanic(escape_range_end) THEN Panic
            ELSE LET head == Slice(p, escape_range_begin, Val(escape_range_end))
                     tail == Slice(p, Val(escape_range_end), Len(p))
                 IN IF IsPanic(head) \/ IsPanic(tail) THEN Panic
                    ELSE LET escaped_string ==
                                 replace(replace(Val(head), <<BSl, LBr>>, <<LBr>>),
                                         <<BSl, RBr>>, <<RBr>>)
                         IN Ok(escaped_string \o Val(tail))

\* Mutant: the inner path is cut from the opening bracket, not after it.
split_package_relative_path_outer_from_open(p) ==
    IF is_empty(p) \/ ~ends_with(p, RBr) THEN Ok(None)
    ELSE LET m == find_matching_opening_delimiter(p, Len(p) - 1)
         IN IF ~is_some(m) THEN Ok(None)
            ELSE Ok(Some(<<Val(unescape_delimiters(SubSeq(p, 1, unwrap(m)))),
                           SubSeq(p, unwrap(m) + 1, Len(p) - 1)>>))

split_package_relative_path_outer(p) ==
    LET outermost_closing_index == find_outermost_closing_delimiter(p)
    IN IF IsPanic(outermost_closing_index) THEN Panic
       ELSE IF ~is_some(Val(outermost_closing_index)) THEN Ok(None)
       ELSE LET last == usize_sub(Len(p), 1)
            IN IF IsPanic(last) THEN Panic
               ELSE LET outermost_opening_index ==
                            find_matching_opening_delimiter(p, Val(last))
                    IN IF ~is_some(outermost_opening_index) THEN Ok(None)
                       ELSE LET open == unwrap(outermost_opening_index)
                                close == unwrap(Val(outermost_closing_index))
                                outer_slice == Slice(p, 0, open)
                                inner_slice == Slice(p, open + 1, close)
                            IN IF IsPanic(outer_slice) \/ IsPanic(inner_slice)
                               THEN Panic
                               ELSE LET outer ==
                                            unescape_delimiters(Val(outer_slice))
                                    IN IF IsPanic(outer) THEN Panic
                                       ELSE Ok(Some(<<Val(outer),
                                                      Val(inner_slice)>>))

----------------------------------------------------------------------------
(* resolver_context/client_context.rs *)

\* Client payload types.  Context1 and Context2 are the types of the crate's
\* doc examples (derived PartialEq on one usize field); ContextF stands for a
\* client type whose own equality is not structural (a derived PartialEq over
\* an f32 field: NaN differs from itself).
PayloadTypes == {"Context1", "Context2", "ContextF"}
BoxT == "Box<dyn ClientContext>"

PayloadData(T) == IF T = "ContextF" THEN {"NaN", "1.0"} ELSE {1, 2}

Payloads == UNION {{[ty |-> T, data |-> d] : d \in PayloadData(T)} : T \in PayloadTypes}

\* Box::new(context) as Box<dyn ClientContext>
Box(payload) == [ty |-> BoxT, data |-> payload]

Elements == {Box(x) : x \in Payloads}

\* <Context as PartialEq>::eq of the payload type T.
payload_eq(T, x, y) ==
    IF T = "ContextF"
    THEN x.data # "NaN" /\ y.data # "NaN" /\ x.data = y.data
    ELSE x.data = y.data

\* The bounds of `impl<Context> ClientContextCmp for Context`:
\* Context: 'static + PartialEq + PartialOrd (and Sized).  The payload types
\* meet them by the bounds of push/new; Box<dyn ClientContext> meets them
\* through the two impls at the end of client_context.rs.
ImplementsClientContextCmp(T) == T \in PayloadTypes \/ T = BoxT

\* Method lookup for `recv.eq_box(..)` on a receiver expression of type &T:
\* the first probe step looks for a method taking `&T`, which the blanket impl
\* provides when T: ClientContextCmp; only otherwise is the receiver
\* dereferenced (T = Box<dyn ClientContext> to the payload behind it).
MethodSelf(v) ==
    IF ImplementsClientContextCmp(v.ty) THEN v ELSE v.data

\* Unsizing `&T` to `&dyn ClientContextCmp`: the vtable is the one of T.
AsDynCmp(v) == [concrete |-> v.ty, data |-> v]

\* ClientContextCmp::as_any, dispatched through the vtable: `self` as &dyn Any.
as_any(obj) == [type_id |-> obj.concrete, data |-> obj.data]

\* <dyn Any>::downcast_ref::<T>()
downcast_ref(any, T) == IF any.type_id = T THEN Some(any.data) ELSE None

NoFrame == [fn |-> "none"]

EqFrame(a, b) == [fn |-> "eq", self |-> a, other |-> b]

EqBoxFrame(a, obj) == [fn |-> "eq_box", self |-> a, other |-> obj]

\* A call: a new frame on the stack, or the stack overflow that aborts.
Call(f) ==
    IF stack_depth >= MaxStack
    THEN /\ status' = "stack_overflow"
         /\ UNCHANGED <<frame, stack_depth, result>>
    ELSE /\ frame' = f
         /\ stack_depth' = stack_depth + 1
         /\ UNCHANGED <<status, result>>

\* Every call of the chain is in tail position: a return value is the value
\* of the whole comparison.
Return(v) ==
    /\ status' = "returned"
    /\ result' = v
    /\ frame' = NoFrame
    /\ stack_depth' = 0

\* `lhs == rhs` on two Box<dyn ClientContext>.
CallEq ==
    /\ status = "idle"
    /\ entry' = "eq"
    /\ status' = "running"
    /\ frame' = EqFrame(lhs, rhs)
    /\ stack_depth' = 1
    /\ UNCHANGED <<lhs, rhs, result>>
    /\ UNCHANGED <<pathVars, cmpVars, v2Vars, v1Vars, resVars, metaVars>>

\* `x.eq_box(&y)` called on the payloads themselves.
CallPayloadEqBox ==
    /\ status = "idle"
    /\ entry' = "payload_eq_box"
    /\ status' = "running"
    /\ frame' = EqBoxFrame(lhs.data, AsDynCmp(rhs.data))
    /\ stack_depth' = 1
    /\ UNCHANGED <<lhs, rhs, result>>
    /\ UNCHANGED <<pathVars, cmpVars, v2Vars, v1Vars, resVars, metaVars>>

\* impl PartialEq for Box<dyn ClientContext>: fn eq { self.eq_box(other) }
BoxEq ==
    /\ status = "running"
    /\ frame.fn = "eq"
    /\ Call(EqBoxFrame(MethodSelf(frame.self), AsDynCmp(frame.other)))
    /\ UNCHANGED <<lhs, rhs, entry>>
    /\ UNCHANGED <<pathVars, cmpVars, v2Vars, v1Vars, resVars, metaVars>>

\* ClientContextCmp::eq_box with Self = the type of frame.self:
\* other.as_any().downcast_ref::<Self>().map_or(false, |ctx| ctx == self)
EqBox ==
    /\ status = "running"
    /\ frame.fn = "eq_box"
    /\ LET Self == frame.self.ty
           ctx == downcast_ref(as_any(frame.other), Self)
       IN IF ~is_some(ctx) THEN Return(FALSE)
          ELSE IF Self = BoxT THEN Call(EqFrame(unwrap(ctx), frame.self))
          ELSE Return(payload_eq(Self, unwrap(ctx), frame.self))
    /\ UNCHANGED <<lhs, rhs, entry>>
    /\ UNCHANGED <<pathVars, cmpVars, v2Vars, v1Vars, resVars, metaVars>>

\* <Context as PartialOrd>::partial_cmp of the payload type T (derived on
\* the one field; an f32 NaN is not comparable).
payload_partial_cmp(T, x, y) ==
    IF T = "ContextF"
    THEN IF x.data = "NaN" \/ y.data = "NaN" THEN None ELSE Some("Equal")
    ELSE IF x.data < y.data THEN Some("Less")
         ELSE IF x.data = y.data THEN Some("Equal")
         ELSE Some("Greater")

PartialCmpFrame(a, b) == [fn |-> "partial_cmp", self |-> a, other |-> b]

PartialCmpBoxFrame(a, obj) == [fn |-> "partial_cmp_box", self |-> a, other |-> obj]

\* `lhs.partial_cmp(&rhs)` on two Box<dyn ClientContext>.
CallPartialCmp ==
    /\ status = "idle"
    /\ entry' = "partial_cmp"
    /\ status' = "running"
    /\ frame' = PartialCmpFrame(lhs, rhs)
    /\ stack_depth' = 1
    /\ UNCHANGED <<lhs, rhs, result>>
    /\ UNCHANGED <<pathVars, cmpVars, v2Vars, v1Vars, resVars, metaVars>>

\* `x.partial_cmp_box(&y)` called on the payloads themselves.
CallPayloadPartialCmpBox ==
    /\ status = "idle"
    /\ entry' = "payload_partial_cmp_box"
    /\ status' = "running"
    /\ frame' = PartialCmpBoxFrame(lhs.data, AsDynCmp(rhs.data))
    /\ stack_depth' = 1
    /\ UNCHANGED <<lhs, rhs, result>>
    /\ UNCHANGED <<pathVars, cmpVars, v2Vars, v1Vars, resVars, metaVars>>

\* impl PartialOrd for Box<dyn ClientContext>:
\* fn partial_cmp { self.partial_cmp_box(other) }
BoxPartialCmp ==
    /\ status = "running"
    /\ frame.fn = "partial_cmp"
    /\ Call(PartialCmpBoxFrame(MethodSelf(frame.self), AsDynCmp(frame.other)))
    /\ UNCHANGED <<lhs, rhs, entry>>
    /\ UNCHANGED <<pathVars, cmpVars, v2Vars, v1Vars, resVars, metaVars>>

\* ClientContextCmp::partial_cmp_box with Self = the type of frame.self:
\* other.as_any().downcast_ref::<Self>().and_then(|ctx| self.partial_cmp_box(ctx))
\* The closure calls partial_cmp_box again, on `self: &Self` and `ctx: &Self`.
PartialCmpBox ==
    /\ status = "running"
    /\ frame.fn = "partial_cmp_box"
    /\ LET Self == frame.self.ty
           ctx == downcast_ref(as_any(frame.other), Self)
       IN IF ~is_some(ctx) THEN Return(None)
          ELSE Call(PartialCmpBoxFrame(MethodSelf(frame.self),
                                       AsDynCmp(unwrap(ctx))))
    /\ UNCHANGED <<lhs, rhs, entry>>
    /\ UNCHANGED <<pathVars, cmpVars, v2Vars, v1Vars, resVars, metaVars>>

----------------------------------------------------------------------------
(* resolver_context_v2.rs: derive(PartialEq, PartialOrd) on
   ResolverContext { contexts: Vec<Box<dyn ClientContext>> } compares the
   two Vecs as slices, calling the element comparisons above *)

\* The slice loop suspended at (1-based) position k while lctx[k] and rctx[k]
\* are compared.
SliceFrame(f, k) == [fn |-> f, k |-> k]

\* The comparison of the two contexts has returned to the client.
Finished == status = "returned" /\ caller = NoFrame

\* `lctx == rctx`
CallCtxEq ==
    /\ status = "idle"
    /\ entry' = "ctx_eq"
    /\ status' = "running"
    /\ frame' = SliceFrame("slice_eq", 0)
    /\ stack_depth' = 1
    /\ UNCHANGED <<lhs, rhs, result>>
    /\ UNCHANGED <<pathVars, cmpVars, v2Vars, v1Vars, resVars, metaVars>>

\* `lctx.partial_cmp(&rctx)`
CallCtxPartialCmp ==
    /\ status = "idle"
    /\ entry' = "ctx_partial_cmp"
    /\ status' = "running"
    /\ frame' = SliceFrame("slice_partial_cmp", 0)
    /\ stack_depth' = 1
    /\ UNCHANGED <<lhs, rhs, result>>
    /\ UNCHANGED <<pathVars, cmpVars, v2Vars, v1Vars, resVars, metaVars>>

\* usize::partial_cmp
usize_partial_cmp(a, b) ==
    IF a < b THEN Some("Less") ELSE IF a = b THEN Some("Equal") ELSE Some("Greater")

\* <[A] as PartialEq<[B]>>::eq: false when the lengths differ, otherwise
\* `x == y` position by position until one is false.  One step runs the loop
\* from its start, or from the return of an element comparison, up to the
\* next element comparison or to its own return.
SliceEq ==
    /\ IF status = "returned" THEN caller.fn = "slice_eq"
       ELSE status = "running" /\ frame.fn = "slice_eq"
    /\ LET resumed == status = "returned"
           k == IF resumed THEN caller.k + 1 ELSE 1
       IN IF ~resumed /\ Len(lctx) # Len(rctx)
          THEN Return(FALSE) /\ caller' = NoFrame
          ELSE IF resumed /\ result = FALSE
          THEN Return(FALSE) /\ caller' = NoFrame
          ELSE IF k > Len(lctx)
          THEN Return(TRUE) /\ caller' = NoFrame
          ELSE /\ frame' = EqFrame(lctx[k], rctx[k])
               /\ caller' = SliceFrame("slice_eq", k)
               /\ stack_depth' = 2
               /\ status' = "running"
               /\ UNCHANGED result
    /\ UNCHANGED <<lhs, rhs, entry, lctx, rctx>>
    /\ UNCHANGED <<pathVars, v2Vars, v1Vars, resVars, metaVars>>

\* <[A] as PartialOrd>::partial_cmp: over the first min(len, len) positions
\* the first element comparison that is not Some(Equal) is the answer;
\* otherwise the lengths are compared.
SlicePartialCmp ==
    /\ IF status = "returned" THEN caller.fn = "slice_partial_cmp"
       ELSE status = "running" /\ frame.fn = "slice_partial_cmp"
    /\ LET resumed == status = "returned"
           k == IF resumed THEN caller.k + 1 ELSE 1
           l == IF Len(lctx) <= Len(rctx) THEN Len(lctx) ELSE Len(rctx)
       IN IF resumed /\ result # Some("Equal")
          THEN Return(result) /\ caller' = NoFrame
          ELSE IF k > l
          THEN Return(usize_partial_cmp(Len(lctx), Len(rctx))) /\ caller' = NoFrame
          ELSE /\ frame' = PartialCmpFrame(lctx[k], rctx[k])
               /\ caller' = SliceFrame("slice_partial_cmp", k)
               /\ stack_depth' = 2
               /\ status' = "running"
               /\ UNCHANGED result
    /\ UNCHANGED <<lhs, rhs, entry, lctx, rctx>>
    /\ UNCHANGED <<pathVars, v2Vars, v1Vars, resVars, metaVars>>

----------------------------------------------------------------------------
(* resolver_context_v1.rs: derive(PartialEq) on
   ResolverContext { context: Option<Box<dyn ClientContext>> } compares the
   two Options *)

OptionEqFrame == [fn |-> "option_eq"]

\* `lctx == rctx` on two single-slot contexts.
CallV1Eq ==
    /\ status = "idle"
    /\ entry' = "v1_eq"
    /\ status' = "running"
    /\ frame' = OptionEqFrame
    /\ stack_depth' = 1
    /\ UNCHANGED <<lhs, rhs, result>>
    /\ UNCHANGED <<pathVars, cmpVars, v2Vars, v1Vars, resVars, metaVars>>

\* <Option<T> as PartialEq>::eq: (Some(l), Some(r)) => *l == *r,
\* (None, None) => true, otherwise false.
OptionEq ==
    /\ status = "running"
    /\ frame.fn = "option_eq"
    /\ IF is_some(lctx) /\ is_some(rctx)
       THEN Call(EqFrame(unwrap(lctx), unwrap(rctx)))
       ELSE Return(~is_some(lctx) /\ ~is_some(rctx))
    /\ UNCHANGED <<lhs, rhs, entry>>
    /\ UNCHANGED <<pathVars, cmpVars, v2Vars, v1Vars, resVars, metaVars>>

----------------------------------------------------------------------------
(* resolver_context_v2.rs and resolver_context_v1.rs: the client's contexts *)

Slots == {"c1", "c2", "c3"}
V1Slots == {"c1", "c2"}

NoOp == [op |-> "none"]
NoBuf == "moved"

\* A slot of the client that holds no single-slot context.
NoCtx == [live |-> FALSE, context |-> None]

\* push requires Context: Hash, which a payload with an f32 field cannot derive.
PushPayloads ==
    {x \in Payloads : \/ x.ty = "Context1"
                      \/ x.ty = "Context2" /\ x.data = 1}

\* Box::as_ref: the &dyn ClientContext behind the box.
as_ref(b) == b.data

\* Vec::push
vec_push(v, e) == Append(v, e)

\* Vec::is_empty
vec_is_empty(v) == Len(v) = 0

\* Vec::extend: every element of the iterator is pushed, in iteration order.
RECURSIVE vec_extend(_, _)
vec_extend(v, it) ==
    IF it = <<>> THEN v ELSE vec_extend(vec_push(v, Head(it)), Tail(it))

\* ClientContextClone::clone_box, reached through the vtable of the payload
\* (Box<dyn ClientContext> is not itself a ClientContext, so the blanket impl
\* does not cover the box): Box::new(self.clone()) with the derived Clone.
clone_box(b) == Box([ty |-> as_ref(b).ty, data |-> as_ref(b).data])

\* Vec::clone: a new vector of the clones of the elements.
vec_clone(v) == [k \in 1..Len(v) |-> clone_box(v[k])]

\* A shallow clone: the clone points at the buffer of the original.
clone_buffer_shared(src_buf, fresh_buf) == src_buf

\* Where the Vec of a clone lives: in the buffer Vec::clone allocated for it.
clone_buffer(src_buf, fresh_buf) == fresh_buf

\* ResolverContext::new
v2_new == <<>>

\* A push that keeps one element per type: an element of the same concrete
\* type is replaced in place, otherwise the new element is appended.
v2_push_replacing(contexts, context) ==
    IF \E k \in 1..Len(contexts) : as_ref(contexts[k]).ty = context.ty
    THEN [k \in 1..Len(contexts) |->
             IF as_ref(contexts[k]).ty = context.ty THEN Box(context)
             ELSE contexts[k]]
    ELSE vec_push(contexts, Box(context))

\* ResolverContext::push
v2_push(contexts, context) == vec_push(contexts, Box(context))

\* The `for` loop of ResolverContext::get::<T>, from element k on (1-based).
\* The result refers to an element: <<its index, the payload there>>.
RECURSIVE v2_get_loop(_, _, _)
v2_get_loop(contexts, k, T) ==
    IF k > Len(contexts) THEN None
    ELSE IF is_some(downcast_ref(as_any(AsDynCmp(as_ref(contexts[k]))), T))
         THEN Some(<<k - 1, as_ref(contexts[k])>>)
         ELSE v2_get_loop(contexts, k + 1, T)

\* A lookup that returns the last element of type T instead of the first.
v2_get_last(contexts, T) ==
    LET M == {k \in 1..Len(contexts) : as_ref(contexts[k]).ty = T}
    IN IF M = {} THEN None
       ELSE LET k == CHOOSE k \in M : \A j \in M : j <= k
            IN Some(<<k - 1, as_ref(contexts[k])>>)

v2_get(contexts, T) == v2_get_loop(contexts, 1, T)

\* The inverted test (what the single-slot is_empty does).
v2_is_empty_inverted(contexts) == ~vec_is_empty(contexts)

\* ResolverContext::is_empty
v2_is_empty(contexts) == vec_is_empty(contexts)

\* A merge that puts the right-hand elements in front.
v2_add_assign_prepend(contexts, rhs_contexts) == vec_extend(rhs_contexts, contexts)

\* AddAssign::add_assign
v2_add_assign(contexts, rhs_contexts) == vec_extend(contexts, rhs_contexts)

Live(s) == ctxs[s] # NoBuf

\* The Vec of the context in slot s.
Contents(s) == bufs[ctxs[s]]

\* Number of elements in the buffers of S.
RECURSIVE SumLen(_)
SumLen(S) ==
    IF S = {} THEN 0
    ELSE LET b == CHOOSE b \in S : TRUE
         IN Len(bufs[b]) + SumLen(S \ {b})

\* Number of elements on the heap.
HeapElems == SumLen(Slots)

\* let mut s = ResolverContext::new();
V2New(s) ==
    /\ ~Live(s)
    /\ bufs' = [bufs EXCEPT ![s] = v2_new]
    /\ ctxs' = [ctxs EXCEPT ![s] = s]
    /\ lastop' = [op |-> "new", args |-> <<s>>]
    /\ UNCHANGED <<pathVars, ctxVars, cmpVars, v1Vars, resVars, metaVars>>

\* s.push(context);
V2Push(s, context) ==
    /\ Live(s)
    /\ HeapElems < MaxElems
    /\ bufs' = [bufs EXCEPT ![ctxs[s]] = v2_push(@, context)]
    /\ lastop' = [op |-> "push", args |-> <<s, context>>]
    /\ UNCHANGED ctxs
    /\ UNCHANGED <<pathVars, ctxVars, cmpVars, v1Vars, resVars, metaVars>>

\* let dst = src.clone();
V2Clone(src, dst) ==
    /\ Live(src)
    /\ ~Live(dst)
    /\ HeapElems + Len(Contents(src)) <= MaxElems
    /\ bufs' = [bufs EXCEPT ![dst] = vec_clone(Contents(src))]
    /\ ctxs' = [ctxs EXCEPT ![dst] = clone_buffer(ctxs[src], dst)]
    /\ lastop' = [op |-> "clone", args |-> <<src, dst>>]
    /\ UNCHANGED <<pathVars, ctxVars, cmpVars, v1Vars, resVars, metaVars>>

\* dst += src;  src is moved into the call and its Vec is consumed.
V2AddAssign(dst, src) ==
    /\ Live(dst)
    /\ Live(src)
    /\ dst # src
    /\ bufs' = [bufs EXCEPT ![ctxs[src]] = <<>>,
                            ![ctxs[dst]] = v2_add_assign(Contents(dst),
                                                         Contents(src))]
    /\ ctxs' = [ctxs EXCEPT ![src] = NoBuf]
    /\ lastop' = [op |-> "add_assign", args |-> <<dst, Contents(src)>>]
    /\ UNCHANGED <<pathVars, ctxVars, cmpVars, v1Vars, resVars, metaVars>>

\* let r = s.get::<T>();
V2Get(s, T) ==
    /\ Live(s)
    /\ lastop' = [op |-> "get", args |-> <<s, T>>,
                  ret |-> v2_get(Contents(s), T)]
    /\ UNCHANGED <<ctxs, bufs>>
    /\ UNCHANGED <<pathVars, ctxVars, cmpVars, v1Vars, resVars, metaVars>>

\* let r = s.is_empty();
V2IsEmpty(s) ==
    /\ Live(s)
    /\ lastop' = [op |-> "is_empty", args |-> <<s>>,
                  ret |-> v2_is_empty(Contents(s))]
    /\ UNCHANGED <<ctxs, bufs>>
    /\ UNCHANGED <<pathVars, ctxVars, cmpVars, v1Vars, resVars, metaVars>>

\* Single-slot ResolverContext::new
v1_new(context) == [live |-> TRUE, context |-> Some(Box(context))]

\* Single-slot derive(Clone): Option::clone, the box cloned by clone_box.
v1_clone(c) ==
    [live |-> TRUE,
     context |-> IF is_some(c.context) THEN Some(clone_box(unwrap(c.context)))
                 ELSE None]

\* A lookup that skips the downcast and returns whatever element is held.
v1_get_unchecked(c, T) ==
    IF is_some(c.context) THEN Some(as_ref(unwrap(c.context))) ELSE None

\* Single-slot ResolverContext::get::<T>
v1_get(c, T) ==
    IF is_some(c.context)
    THEN LET context == unwrap(c.context)
         IN IF is_some(downcast_ref(as_any(AsDynCmp(as_ref(context))), T))
            THEN Some(as_ref(context))
            ELSE None
    ELSE None

\* Single-slot ResolverContext::is_empty
v1_is_empty(c) == is_some(c.context)

\* let s = ResolverContext::new(context);
V1New(s, context) ==
    /\ v1ctx' = [v1ctx EXCEPT ![s] = v1_new(context)]
    /\ v1obs' = [op |-> "new", args |-> <<s, context>>]
    /\ UNCHANGED <<pathVars, ctxVars, cmpVars, v2Vars, resVars, metaVars>>

\* let dst = src.clone();
V1Clone(src, dst) ==
    /\ v1ctx[src].live
    /\ src # dst
    /\ v1ctx' = [v1ctx EXCEPT ![dst] = v1_clone(v1ctx[src])]
    /\ v1obs' = [op |-> "clone", args |-> <<src, dst>>]
    /\ UNCHANGED <<pathVars, ctxVars, cmpVars, v2Vars, resVars, metaVars>>

\* let r = s.get::<T>();
V1Get(s, T) ==
    /\ v1ctx[s].live
    /\ v1obs' = [op |-> "get", args |-> <<s, T>>, ret |-> v1_get(v1ctx[s], T)]
    /\ UNCHANGED v1ctx
    /\ UNCHANGED <<pathVars, ctxVars, cmpVars, v2Vars, resVars, metaVars>>

\* let r = s.is_empty();
V1IsEmpty(s) ==
    /\ v1ctx[s].live
    /\ v1obs' = [op |-> "is_empty", args |-> <<s>>,
                 ret |-> v1_is_empty(v1ctx[s])]
    /\ UNCHANGED v1ctx
    /\ UNCHANGED <<pathVars, ctxVars, cmpVars, v2Vars, resVars, metaVars>>

----------------------------------------------------------------------------
(* resolver/v1/wrapper.rs: the preferred resolver, std build *)

Threads == {"t1", "t2", "t3"}

\* The strings the callers pass to set_preferred_resolver.
ResolverNames == {<<>>, <<"a">>, <<"b", "b">>}

Unlocked == "unlocked"

\* A String: the heap buffer it points to and its length field.
String(s) == [buf |-> s, len |-> Len(s)]

\* String::is_empty
string_is_empty(x) == x.len = 0

\* String::clone: the first len bytes of the buffer; bytes behind the end of
\* the buffer read as "?".
string_clone(x) == [k \in 1..x.len |-> IF k <= Len(x.buf) THEN x.buf[k] ELSE "?"]

\* A lock that lets every caller in.
lock_unguarded(m) == TRUE

\* Mutex::lock returns when no thread holds the mutex.
lock(m) == m = Unlocked

\* A thread calls set_preferred_resolver(preferred_resolver).
CallSet(t, preferred_resolver) ==
    /\ pc[t] \in {"idle", "got"}
    /\ pc' = [pc EXCEPT ![t] = "set_lock"]
    /\ local' = [local EXCEPT ![t] = Some(preferred_resolver)]
    /\ UNCHANGED <<PREFERRED_RESOLVER, mutex, completed>>
    /\ UNCHANGED <<pathVars, ctxVars, cmpVars, v2Vars, v1Vars, metaVars>>

\* let mut resolver = PREFERRED_RESOLVER.lock().unwrap();
SetLock(t) ==
    /\ pc[t] = "set_lock"
    /\ lock(mutex)
    /\ mutex' = t
    /\ pc' = [pc EXCEPT ![t] = "set_write_buf"]
    /\ UNCHANGED <<PREFERRED_RESOLVER, local, completed>>
    /\ UNCHANGED <<pathVars, ctxVars, cmpVars, v2Vars, v1Vars, metaVars>>

\* *resolver = preferred_resolver.to_string();  the buffer pointer is stored
SetWriteBuf(t) ==
    /\ pc[t] = "set_write_buf"
    /\ PREFERRED_RESOLVER' = [PREFERRED_RESOLVER EXCEPT !.buf = unwrap(local[t])]
    /\ pc' = [pc EXCEPT ![t] = "set_write_len"]
    /\ UNCHANGED <<mutex, local, completed>>
    /\ UNCHANGED <<pathVars, ctxVars, cmpVars, v2Vars, v1Vars, metaVars>>

\* ... and then the length.
SetWriteLen(t) ==
    /\ pc[t] = "set_write_len"
    /\ PREFERRED_RESOLVER' = [PREFERRED_RESOLVER EXCEPT !.len = Len(unwrap(local[t]))]
    /\ pc' = [pc EXCEPT ![t] = "set_unlock"]
    /\ UNCHANGED <<mutex, local, completed>>
    /\ UNCHANGED <<pathVars, ctxVars, cmpVars, v2Vars, v1Vars, metaVars>>

\* The guard is dropped at the end of set_preferred_resolver, which returns.
SetUnlock(t) ==
    /\ pc[t] = "set_unlock"
    /\ mutex' = Unlocked
    /\ completed' = unwrap(local[t])
    /\ pc' = [pc EXCEPT ![t] = "idle"]
    /\ local' = [local EXCEPT ![t] = None]
    /\ UNCHANGED PREFERRED_RESOLVER
    /\ UNCHANGED <<pathVars, ctxVars, cmpVars, v2Vars, v1Vars, metaVars>>

\* A thread calls get_preferred_resolver().
CallGet(t) ==
    /\ pc[t] \in {"idle", "got"}
    /\ pc' = [pc EXCEPT ![t] = "get_lock"]
    /\ local' = [local EXCEPT ![t] = None]
    /\ UNCHANGED <<PREFERRED_RESOLVER, mutex, completed>>
    /\ UNCHANGED <<pathVars, ctxVars, cmpVars, v2Vars, v1Vars, metaVars>>

\* if let Ok(resolver) = PREFERRED_RESOLVER.lock()
\* (no thread panics while it holds the guard, so the mutex is never poisoned)
GetLock(t) ==
    /\ pc[t] = "get_lock"
    /\ lock(mutex)
    /\ mutex' = t
    /\ pc' = [pc EXCEPT ![t] = "get_read"]
    /\ UNCHANGED <<PREFERRED_RESOLVER, local, completed>>
    /\ UNCHANGED <<pathVars, ctxVars, cmpVars, v2Vars, v1Vars, metaVars>>

\* if !resolver.is_empty() { return Some(resolver.clone()); }  ...  None
GetRead(t) ==
    /\ pc[t] = "get_read"
    /\ local' = [local EXCEPT ![t] =
                     IF ~string_is_empty(PREFERRED_RESOLVER)
                     THEN Some(string_clone(PREFERRED_RESOLVER))
                     ELSE None]
    /\ pc' = [pc EXCEPT ![t] = "get_unlock"]
    /\ UNCHANGED <<PREFERRED_RESOLVER, mutex, completed>>
    /\ UNCHANGED <<pathVars, ctxVars, cmpVars, v2Vars, v1Vars, metaVars>>

\* The guard is dropped and get_preferred_resolver returns local[t], which
\* the caller holds until its next call.
GetUnlock(t) ==
    /\ pc[t] = "get_unlock"
    /\ mutex' = Unlocked
    /\ pc' = [pc EXCEPT ![t] = "got"]
    /\ UNCHANGED <<PREFERRED_RESOLVER, local, completed>>
    /\ UNCHANGED <<pathVars, ctxVars, cmpVars, v2Vars, v1Vars, metaVars>>

----------------------------------------------------------------------------
(* plugin/src/info/registration_metadata.rs *)

Sep == "/"

\* default_path
default_path == <<".">>

\* str::starts_with("/")
starts_with_sep(s) == Len(s) > 0 /\ s[1] = Sep

\* Path::is_absolute on a Unix target: the path has a root.
path_is_absolute(s) == starts_with_sep(s)

\* A join that always puts a separator between the two paths.
path_join_with_sep(root, sub) == root \o <<Sep>> \o sub

\* Path::new(root).join(sub) for a relative sub on a Unix target
\* (PathBuf::push): a separator is added only when root is not empty and
\* does not already end with one.
path_join(root, sub) ==
    IF Len(root) > 0 /\ root[Len(root)] # Sep
    THEN root \o <<Sep>> \o sub
    ELSE root \o sub

\* format!("{}/{}", root_path_name, sub_path_name)
format_root_sub(root, sub) == root \o <<Sep>> \o sub

\* append_to_root_path, #[cfg(not(feature = "std"))]
append_to_root_path_no_std(root_path_name, sub_path_name) ==
    IF is_empty(sub_path_name) THEN root_path_name
    ELSE IF starts_with_sep(sub_path_name) THEN sub_path_name
    ELSE format_root_sub(root_path_name, sub_path_name)

\* append_to_root_path, #[cfg(feature = "std")]
append_to_root_path_std(root_path_name, sub_path_name) ==
    IF is_empty(sub_path_name) THEN root_path_name
    ELSE IF path_is_absolute(sub_path_name) THEN sub_path_name
    ELSE path_join(root_path_name, sub_path_name)

\* A result that ignores an absolute sub-path.
append_to_root_path_always_joined(b, root_path_name, sub_path_name) ==
    IF is_empty(sub_path_name) THEN root_path_name
    ELSE path_join(root_path_name, sub_path_name)

append_to_root_path(b, root_path_name, sub_path_name) ==
    IF b = "std" THEN append_to_root_path_std(root_path_name, sub_path_name)
    ELSE append_to_root_path_no_std(root_path_name, sub_path_name)

\* serde: Root is defaulted in the std build and required otherwise;
\* ResourcePath is defaulted in both.
deserialize(b, Root, LibraryPath, ResourcePath) ==
    IF ~is_some(Root) /\ b # "std" THEN <<"Err", "missing field Root">>
    ELSE Some([plugin_path |-> IF is_some(Root) THEN unwrap(Root) ELSE default_path,
               library_path |-> LibraryPath,
               resource_path |-> IF is_some(ResourcePath) THEN unwrap(ResourcePath)
                                 ELSE default_path])

MetaChars == {Sep, ".", "l"}

\* The paths of the source's tests.
TestRoots == {<<Sep, "f", "o", "o">>, <<Sep, "r", "o", "o", "t">>}

TestSubs == {<<"l", "i", "b">>, <<"r", "e", "s", "o", "u", "r", "c", "e", "s">>}

MetaPaths == UNION {[1..n -> MetaChars] : n \in 0..MaxPathLen}

\* let metadata: RegistrationMetadata = serde_json::from_str(data)
\* for JSON data with or without "Root" and "ResourcePath".
Deserialize ==
    /\ build = "none"
    /\ \E b \in {"std", "no_std"},
          Root \in {None} \cup {Some(r) : r \in MetaPaths \cup TestRoots},
          LibraryPath \in MetaPaths \cup TestSubs,
          ResourcePath \in {None} \cup {Some(r) : r \in MetaPaths \cup TestSubs} :
            /\ build' = b
            /\ metadata' = deserialize(b, Root, LibraryPath, ResourcePath)
    /\ UNCHANGED mobs
    /\ UNCHANGED <<pathVars, ctxVars, cmpVars, v2Vars, v1Vars, resVars>>

\* metadata.library_path()
LibraryPathQuery ==
    /\ is_some(metadata)
    /\ mobs' = [op |-> "library_path",
                ret |-> append_to_root_path(build, unwrap(metadata).plugin_path,
                                            unwrap(metadata).library_path)]
    /\ UNCHANGED <<build, metadata>>
    /\ UNCHANGED <<pathVars, ctxVars, cmpVars, v2Vars, v1Vars, resVars>>

\* metadata.resource_path()
ResourcePathQuery ==
    /\ is_some(metadata)
    /\ mobs' = [op |-> "resource_path",
                ret |-> append_to_root_path(build, unwrap(metadata).plugin_path,
                                            unwrap(metadata).resource_path)]
    /\ UNCHANGED <<build, metadata>>
    /\ UNCHANGED <<pathVars, ctxVars, cmpVars, v2Vars, v1Vars, resVars>>

----------------------------------------------------------------------------
(* Inputs *)

\* escape(O): a backslash before every bracket of O.
RECURSIVE escape(_)
escape(s) ==
    IF s = <<>> THEN <<>>
    ELSE IF s[1] = LBr \/ s[1] = RBr
         THEN <<BSl, s[1]>> \o escape(Tail(s))
         ELSE <<s[1]>> \o escape(Tail(s))

Build(O, I) == escape(O) \o <<LBr>> \o I \o <<RBr>>

OuterTexts == Strs(MaxOuter)
InnerTexts == Strs(MaxInner)

PathInputs == Strs(MaxLen) \cup {Build(O, I) : O \in OuterTexts, I \in InnerTexts}

----------------------------------------------------------------------------
(* State machine: one call of one path operation on one input *)

CtxIdle ==
    /\ entry = "none"
    /\ frame = NoFrame
    /\ stack_depth = 0
    /\ status = "idle"
    /\ result = FALSE

\* No context comparison, no multi-slot and no single-slot context in use.
CmpIdle ==
    /\ lctx = <<>>
    /\ rctx = <<>>
    /\ caller = NoFrame

V2Idle ==
    /\ ctxs = [s \in Slots |-> NoBuf]
    /\ bufs = [s \in Slots |-> <<>>]
    /\ lastop = NoOp

V1Idle ==
    /\ v1ctx = [s \in V1Slots |-> NoCtx]
    /\ v1obs = NoOp

\* No thread is in set/get_preferred_resolver; the static holds
\* String::default().
ResIdle ==
    /\ PREFERRED_RESOLVER = String(<<>>)
    /\ mutex = Unlocked
    /\ pc = [t \in Threads |-> "idle"]
    /\ local = [t \in Threads |-> None]
    /\ completed = <<>>

\* No registration metadata read yet.
MetaIdle ==
    /\ build = "none"
    /\ metadata = None
    /\ mobs = NoOp

PathIdle ==
    /\ path = <<>>
    /\ op = "none"
    /\ closing = 0
    /\ ret = Ok(None)

Init ==
    /\ path \in PathInputs
    /\ op = "none"
    /\ closing = 0
    /\ ret = Ok(None)
    /\ lhs = Box([ty |-> "Context1", data |-> 1])
    /\ rhs = Box([ty |-> "Context1", data |-> 1])
    /\ CtxIdle
    /\ CmpIdle
    /\ V2Idle
    /\ V1Idle
    /\ ResIdle
    /\ MetaIdle

FindMatchingOpeningDelimiter ==
    /\ op = "none"
    /\ \E c \in 0..(Len(path) + 1) :
        /\ closing' = c
        /\ ret' = Ok(find_matching_opening_delimiter(path, c))
    /\ op' = "find_matching_opening_delimiter"
    /\ UNCHANGED path
    /\ UNCHANGED <<ctxVars, cmpVars, v2Vars, v1Vars, resVars, metaVars>>

FindOutermostClosingDelimiter ==
    /\ op = "none"
    /\ op' = "find_outermost_closing_delimiter"
    /\ ret' = find_outermost_closing_delimiter(path)
    /\ UNCHANGED <<path, closing>>
    /\ UNCHANGED <<ctxVars, cmpVars, v2Vars, v1Vars, resVars, metaVars>>

IsPackageRelativePath ==
    /\ op = "none"
    /\ op' = "is_package_relative_path"
    /\ ret' = is_package_relative_path(path)
    /\ UNCHANGED <<path, closing>>
    /\ UNCHANGED <<ctxVars, cmpVars, v2Vars, v1Vars, resVars, metaVars>>

SplitPackageRelativePathOuter ==
    /\ op = "none"
    /\ op' = "split_package_relative_path_outer"
    /\ ret' = split_package_relative_path_outer(path)
    /\ UNCHANGED <<path, closing>>
    /\ UNCHANGED <<ctxVars, cmpVars, v2Vars, v1Vars, resVars, metaVars>>

UnescapeDelimiters ==
    /\ op = "none"
    /\ op' = "unescape_delimiters"
    /\ ret' = unescape_delimiters(path)
    /\ UNCHANGED <<path, closing>>
    /\ UNCHANGED <<ctxVars, cmpVars, v2Vars, v1Vars, resVars, metaVars>>

Next ==
    \/ FindMatchingOpeningDelimiter
    \/ FindOutermostClosingDelimiter
    \/ IsPackageRelativePath
    \/ SplitPackageRelativePathOuter
    \/ UnescapeDelimiters

Spec == Init /\ [][Next]_vars

----------------------------------------------------------------------------
(* State machine: a caller that splits a path and goes on with the inner or
   with the outer path of the result, as long as the splitter returns Some *)

\* if let Some((_, inner)) = split_package_relative_path_outer(path) { path = inner }
RecurseInner ==
    /\ ~IsPanic(split_package_relative_path_outer(path))
    /\ is_some(Val(split_package_relative_path_outer(path)))
    /\ op' = "recurse_inner"
    /\ ret' = split_package_relative_path_outer(path)
    /\ path' = unwrap(Val(split_package_relative_path_outer(path)))[2]
    /\ UNCHANGED closing
    /\ UNCHANGED <<ctxVars, cmpVars, v2Vars, v1Vars, resVars, metaVars>>

\* if let Some((outer, _)) = split_package_relative_path_outer(path) { path = outer }
RecurseOuter ==
    /\ ~IsPanic(split_package_relative_path_outer(path))
    /\ is_some(Val(split_package_relative_path_outer(path)))
    /\ op' = "recurse_outer"
    /\ ret' = split_package_relative_path_outer(path)
    /\ path' = unwrap(Val(split_package_relative_path_outer(path)))[1]
    /\ UNCHANGED closing
    /\ UNCHANGED <<ctxVars, cmpVars, v2Vars, v1Vars, resVars, metaVars>>

NextRecurse ==
    \/ RecurseInner
    \/ RecurseOuter

SpecRecurse == Init /\ [][NextRecurse]_vars

----------------------------------------------------------------------------
(* State machine: one comparison of two context elements *)

InitCtx ==
    /\ path = <<>>
    /\ op = "none"
    /\ closing = 0
    /\ ret = Ok(None)
    /\ lhs \in Elements
    /\ rhs \in Elements
    /\ CtxIdle
    /\ CmpIdle
    /\ V2Idle
    /\ V1Idle
    /\ ResIdle
    /\ MetaIdle

NextCtx ==
    \/ CallEq
    \/ CallPayloadEqBox
    \/ BoxEq
    \/ EqBox
    \/ CallPartialCmp
    \/ CallPayloadPartialCmpBox
    \/ BoxPartialCmp
    \/ PartialCmpBox

SpecCtx == InitCtx /\ [][NextCtx]_vars

----------------------------------------------------------------------------
(* State machine: a client creating, filling, cloning and merging multi-slot
   contexts *)

InitV2 ==
    /\ PathIdle
    /\ lhs = Box([ty |-> "Context1", data |-> 1])
    /\ rhs = Box([ty |-> "Context1", data |-> 1])
    /\ CtxIdle
    /\ CmpIdle
    /\ V2Idle
    /\ V1Idle
    /\ ResIdle
    /\ MetaIdle

NextV2 ==
    \/ \E s \in Slots : V2New(s)
    \/ \E s \in Slots, x \in PushPayloads : V2Push(s, x)
    \/ \E src \in Slots, dst \in Slots : V2Clone(src, dst)
    \/ \E dst \in Slots, src \in Slots : V2AddAssign(dst, src)
    \/ \E s \in Slots, T \in PayloadTypes : V2Get(s, T)
    \/ \E s \in Slots : V2IsEmpty(s)

SpecV2 == InitV2 /\ [][NextV2]_vars

----------------------------------------------------------------------------
(* State machine: comparing two multi-slot contexts *)

CmpContexts == UNION {[1..n -> Elements] : n \in 0..MaxCmpLen}

InitCmp ==
    /\ PathIdle
    /\ lhs = Box([ty |-> "Context1", data |-> 1])
    /\ rhs = Box([ty |-> "Context1", data |-> 1])
    /\ CtxIdle
    /\ lctx \in CmpContexts
    /\ rctx \in CmpContexts
    /\ caller = NoFrame
    /\ V2Idle
    /\ V1Idle
    /\ ResIdle
    /\ MetaIdle

NextCmp ==
    \/ CallCtxEq
    \/ CallCtxPartialCmp
    \/ SliceEq
    \/ SlicePartialCmp
    \/ BoxEq
    \/ EqBox
    \/ BoxPartialCmp
    \/ PartialCmpBox

SpecCmp == InitCmp /\ [][NextCmp]_vars

----------------------------------------------------------------------------
(* State machine: comparing two single-slot contexts *)

V1Contexts == {None} \cup {Some(e) : e \in Elements}

InitV1Cmp ==
    /\ PathIdle
    /\ lhs = Box([ty |-> "Context1", data |-> 1])
    /\ rhs = Box([ty |-> "Context1", data |-> 1])
    /\ CtxIdle
    /\ lctx \in V1Contexts
    /\ rctx \in V1Contexts
    /\ caller = NoFrame
    /\ V2Idle
    /\ V1Idle
    /\ ResIdle
    /\ MetaIdle

NextV1Cmp ==
    \/ CallV1Eq
    \/ OptionEq
    \/ BoxEq
    \/ EqBox

SpecV1Cmp == InitV1Cmp /\ [][NextV1Cmp]_vars

----------------------------------------------------------------------------
(* State machine: a client creating, cloning and querying single-slot
   contexts *)

InitV1 == InitV2

NextV1 ==
    \/ \E s \in V1Slots, x \in Payloads : V1New(s, x)
    \/ \E src \in V1Slots, dst \in V1Slots : V1Clone(src, dst)
    \/ \E s \in V1Slots, T \in PayloadTypes : V1Get(s, T)
    \/ \E s \in V1Slots : V1IsEmpty(s)

SpecV1 == InitV1 /\ [][NextV1]_vars

----------------------------------------------------------------------------
(* State machine: threads calling set_preferred_resolver and
   get_preferred_resolver *)

InitRes == InitV2

NextRes ==
    \/ \E t \in Threads, n \in ResolverNames : CallSet(t, n)
    \/ \E t \in Threads : SetLock(t)
    \/ \E t \in Threads : SetWriteBuf(t)
    \/ \E t \in Threads : SetWriteLen(t)
    \/ \E t \in Threads : SetUnlock(t)
    \/ \E t \in Threads : CallGet(t)
    \/ \E t \in Threads : GetLock(t)
    \/ \E t \in Threads : GetRead(t)
    \/ \E t \in Threads : GetUnlock(t)

SpecRes == InitRes /\ [][NextRes]_vars

----------------------------------------------------------------------------
(* State machine: registration metadata read from JSON and asked for its
   paths *)

InitMeta == InitV2

NextMeta ==
    \/ Deserialize
    \/ LibraryPathQuery
    \/ ResourcePathQuery

SpecMeta == InitMeta /\ [][NextMeta]_vars

----------------------------------------------------------------------------
(* Reference definitions used to state the properties *)

IsBracket(b) == b = LBr \/ b = RBr

\* The backward scan over byte positions i, i-1, ..., 0 with the given depth.
RECURSIVE RefScan(_, _, _)
RefScan(s, i, depth) ==
    IF i < 0 THEN None
    ELSE IF IsBracket(At(s, i)) /\ i > 0 /\ At(s, i - 1) = BSl
         THEN RefScan(s, i - 2, depth)
         ELSE LET d == IF At(s, i) = LBr THEN depth - 1
                       ELSE IF At(s, i) = RBr THEN depth + 1
                       ELSE depth
              IN IF d = 0 THEN Some(i) ELSE RefScan(s, i - 1, d)

\* The opening delimiter matching the final byte of s, by the backward scan.
RefOpen(s) == RefScan(s, Len(s) - 2, 1)

\* One left-to-right pass replacing backslash-bracket by the bracket.
RECURSIVE RefUnescapeAll(_)
RefUnescapeAll(s) ==
    IF Len(s) < 2 THEN s
    ELSE IF s[1] = BSl /\ IsBracket(s[2])
         THEN <<s[2]>> \o RefUnescapeAll(SubSeq(s, 3, Len(s)))
         ELSE <<s[1]>> \o RefUnescapeAll(Tail(s))

\* Bracket k (1-based) of s is not immediately preceded by a backslash.
Unescaped(s, k, b) == s[k] = b /\ (k = 1 \/ s[k - 1] # BSl)

CountFrom(s, j, b) == Cardinality({k \in j..Len(s) : Unescaped(s, k, b)})

\* The unescaped brackets of s are balanced.
Balanced(s) ==
    /\ CountFrom(s, 1, LBr) = CountFrom(s, 1, RBr)
    /\ \A j \in 1..Len(s) : CountFrom(s, j, LBr) <= CountFrom(s, j, RBr)

\* Every bracket of s is preceded by a backslash.
NoUnescapedBrackets(s) == CountFrom(s, 1, LBr) = 0 /\ CountFrom(s, 1, RBr) = 0

\* The inner text I for which p = Build(O, I), when there is one.
InnerOf(p, O) == SubSeq(p, Len(escape(O)) + 2, Len(p) - 1)

\* p = Build(O, I) for some inner text I of the input set.
BuiltFrom(p, O) ==
    /\ Len(p) >= Len(escape(O)) + 2
    /\ Len(p) <= Len(escape(O)) + 2 + MaxInner
    /\ p = Build(O, InnerOf(p, O))

EndsWithEscapedClose(s) ==
    Len(s) >= 2 /\ s[Len(s)] = RBr /\ s[Len(s) - 1] = BSl

----------------------------------------------------------------------------
(* Properties *)

\* C1: for every path and every index c naming a `]`,
\* find_matching_opening_delimiter(path, c) equals the backward scan that
\* starts with depth 1 at c-1, skips backslash-escaped brackets together with
\* the backslash, and returns the first index where depth is 0, else None.
C1_FindEqualsBackwardScan ==
    (/\ op = "find_matching_opening_delimiter"
     /\ closing < Len(path)
     /\ At(path, closing) = RBr)
        => ret = Ok(RefScan(path, closing - 1, 1))

\* The shape of the source's test ("a[s\[d]", 6): the escaped `[` is skipped.
C1_Witness ==
    /\ op = "find_matching_opening_delimiter"
    /\ path = <<"a", LBr, "a", BSl, LBr, "a", RBr>>
    /\ closing = 6
    /\ ret = Ok(Some(1))

\* C2: is_package_relative_path(path) is true iff path is non-empty, ends
\* with `]` and a matching opening delimiter exists for the final `]`.
C2_IsPackageRelativeIff ==
    op = "is_package_relative_path"
        => ret = Ok(/\ path # <<>>
                    /\ path[Len(path)] = RBr
                    /\ is_some(RefOpen(path)))

\* The shape of the source's test ("[a\[sd]"): package-relative.
C2_Witness ==
    /\ op = "is_package_relative_path"
    /\ path = <<LBr, "a", BSl, LBr, "a", RBr>>
    /\ ret = Ok(TRUE)

\* C3: split_package_relative_path_outer returns None for an empty path, a
\* path not ending in `]` or one without a matching opening delimiter, and
\* otherwise Some((unescape_delimiters(path[0..open]), path[open+1..close]))
\* with the inner path verbatim.
C3_SplitResult ==
    op = "split_package_relative_path_outer"
        => ret = Ok(IF \/ path = <<>>
                       \/ path[Len(path)] # RBr
                       \/ ~is_some(RefOpen(path))
                    THEN None
                    ELSE LET open == unwrap(RefOpen(path))
                             close == Len(path) - 1
                         IN Some(<<Val(unescape_delimiters(SubSeq(path, 1, open))),
                                   SubSeq(path, open + 2, close)>>))

\* An escaped bracket in the outer part, an escaped and a nested pair inside.
C3_Witness ==
    /\ op = "split_package_relative_path_outer"
    /\ path = <<BSl, RBr, LBr, BSl, LBr, RBr>>
    /\ ret = Ok(Some(<<<<RBr>>, <<BSl, LBr>>>>))

\* C4 (as stated): for any outer text O without unescaped brackets and ANY
\* inner text I, splitting escape(O) + "[" + I + "]" yields Some((O, I)).
C4_RoundTripAnyInner ==
    op = "split_package_relative_path_outer"
        => \A O \in OuterTexts :
               (BuiltFrom(path, O) /\ NoUnescapedBrackets(O))
                   => ret = Ok(Some(<<O, InnerOf(path, O)>>))

\* C4 (amended): for any outer text O that does not end with a backslash and
\* any inner text I whose unescaped brackets are balanced, splitting
\* escape(O) + "[" + I + "]" yields Some((O, I)).
C4_RoundTripBalancedInner ==
    op = "split_package_relative_path_outer"
        => \A O \in OuterTexts :
               (/\ BuiltFrom(path, O)
                /\ ~ends_with(O, BSl)
                /\ Balanced(InnerOf(path, O)))
                   => ret = Ok(Some(<<O, InnerOf(path, O)>>))

\* O = "]" is escaped on the way in and restored; I = "[a]" is nested.
C4_Witness ==
    /\ op = "split_package_relative_path_outer"
    /\ path = Build(<<RBr>>, <<LBr, "a", RBr>>)
    /\ ret = Ok(Some(<<<<RBr>>, <<LBr, "a", RBr>>>>))

\* C5: a path whose final `]` is immediately preceded by a backslash is not
\* package-relative: is_package_relative_path is false and the split is None.
C5_EscapedFinalCloseRejected ==
    EndsWithEscapedClose(path)
        => /\ op = "is_package_relative_path" => ret = Ok(FALSE)
           /\ op = "split_package_relative_path_outer" => ret = Ok(None)

C7_PackagedPortionKept ==
    (/\ op = "unescape_delimiters"
     /\ path # <<>>
     /\ path[Len(path)] = RBr
     /\ ~EndsWithEscapedClose(path)
     /\ is_some(RefOpen(path)))
        => /\ ~IsPanic(ret)
           /\ LET open == unwrap(RefOpen(path))
                  n == Len(path) - open
                  r == Val(ret)
              IN /\ Len(r) >= n
                 /\ SubSeq(r, Len(r) - n + 1, Len(r))
                        = SubSeq(path, open + 1, Len(path))

\* C8: whenever the split returns Some((outer, inner)), outer is path[0..open]
\* with every backslash-escaped bracket replaced by the bracket, whatever
\* brackets path[0..open] contains.
C8_OuterFullyUnescaped ==
    (/\ op = "split_package_relative_path_outer"
     /\ ~IsPanic(ret)
     /\ is_some(Val(ret)))
        => unwrap(Val(ret))[1]
              = RefUnescapeAll(SubSeq(path, 1, unwrap(RefOpen(path))))

\* C9: the path operations are total: none of them panics on any string, and
\* find_matching_opening_delimiter returns Some or None for every closing
\* index, also one that is not a `]` or lies at or past the end.
C9_Total ==
    op # "none"
        => /\ ~IsPanic(ret)
           /\ op = "is_package_relative_path" => Val(ret) \in BOOLEAN
           /\ op = "unescape_delimiters" => Val(ret) \in Seq(Bytes)
           /\ op \in {"split_package_relative_path_outer",
                      "find_matching_opening_delimiter",
                      "find_outermost_closing_delimiter"}
                  => Val(ret)[1] \in {"None", "Some"}
           /\ (op = "split_package_relative_path_outer" /\ is_some(Val(ret)))
                  => unwrap(RefOpen(path)) + 1 <= Len(path) - 1

\* The empty path reaches the `len - 1` of the splitter's callees.
C9_Witness ==
    /\ op = "split_package_relative_path_outer"
    /\ path = <<>>
    /\ ret = Ok(None)

\* C10: `==` on two Box<dyn ClientContext> returns true iff both payloads have
\* the same concrete type and are equal under that type's own equality; it
\* returns false when the types differ, and never fails.
C10_BoxEqTypeChecked ==
    entry = "eq"
        => /\ status # "stack_overflow"
           /\ status = "returned"
                  => result = (/\ lhs.data.ty = rhs.data.ty
                               /\ payload_eq(lhs.data.ty, lhs.data, rhs.data))

\* C11: partial_cmp on two Box<dyn ClientContext> returns the ordering of the
\* payload type's own partial order when both payloads have the same concrete
\* type, returns None when the types differ, and never fails.
C11_BoxPartialCmpTypeChecked ==
    entry = "partial_cmp"
        => /\ status # "stack_overflow"
           /\ status = "returned"
                  => result = IF lhs.data.ty = rhs.data.ty
                              THEN payload_partial_cmp(lhs.data.ty, lhs.data,
                                                       rhs.data)
                              ELSE None

\* C12: after any sequence of new, push, clone and += a multi-slot context
\* never holds two elements with the same concrete payload type.
C12_OneElementPerType ==
    \A s \in Slots :
        Live(s) =>
            \A i \in 1..Len(Contents(s)), j \in 1..Len(Contents(s)) :
                i # j => as_ref(Contents(s)[i]).ty # as_ref(Contents(s)[j]).ty

C14_GetFirstOfType ==
    lastop.op = "get" =>
        LET c == Contents(lastop.args[1])
            T == lastop.args[2]
            M == {k \in 1..Len(c) : as_ref(c[k]).ty = T}
        IN /\ is_some(lastop.ret) <=> M # {}
           /\ is_some(lastop.ret) =>
                  /\ unwrap(lastop.ret)[1] + 1 \in M
                  /\ \A j \in M : unwrap(lastop.ret)[1] + 1 <= j
                  /\ unwrap(lastop.ret)[2] = as_ref(c[unwrap(lastop.ret)[1] + 1])
           /\ Len(c) = 1 => (is_some(lastop.ret) <=> T = as_ref(c[1]).ty)

\* get::<Context1>() on a context whose second element is another Context1
\* returned the element at index 0.
C14_Witness ==
    /\ lastop.op = "get"
    /\ lastop.args[2] = "Context1"
    /\ LET c == Contents(lastop.args[1])
       IN /\ Len(c) = 2
          /\ as_ref(c[1]).ty = "Context1"
          /\ as_ref(c[2]).ty = "Context1"
          /\ as_ref(c[1]).data # as_ref(c[2]).data
          /\ lastop.ret = Some(<<0, as_ref(c[1])>>)

C18_CloneIndependent ==
    /\ [][\A src \in Slots, dst \in Slots :
             V2Clone(src, dst) =>
                 /\ Len(bufs'[ctxs'[dst]]) = Len(bufs[ctxs[src]])
                 /\ \A k \in 1..Len(bufs[ctxs[src]]) :
                        /\ as_ref(bufs'[ctxs'[dst]][k]).ty
                               = as_ref(bufs[ctxs[src]][k]).ty
                        /\ as_ref(bufs'[ctxs'[dst]][k]).data
                               = as_ref(bufs[ctxs[src]][k]).data
                 /\ \A o \in Slots \ {dst} :
                        Live(o) => bufs'[ctxs'[o]] = bufs[ctxs[o]]]_vars
    /\ [][\A s \in Slots, x \in PushPayloads :
             V2Push(s, x) =>
                 \A o \in Slots \ {s} :
                     Live(o) => bufs'[ctxs'[o]] = bufs[ctxs[o]]]_vars
    /\ [][\A dst \in Slots, src \in Slots :
             V2AddAssign(dst, src) =>
                 \A o \in Slots \ {dst, src} :
                     Live(o) => bufs'[ctxs'[o]] = bufs[ctxs[o]]]_vars

\* A push into one of two contexts with equal elements has happened: the
\* other one still holds the sequence without the pushed element.
C18_Witness ==
    /\ lastop.op = "push"
    /\ \E o \in Slots \ {lastop.args[1]} :
           /\ Live(o)
           /\ Len(Contents(o)) >= 1
           /\ Contents(lastop.args[1]) = Append(Contents(o), Box(lastop.args[2]))

\* C19: new() yields a context with zero elements, and is_empty() is true
\* iff the sequence has zero elements (so it is false after any push).
C19_NewEmptyAndIsEmptyIff ==
    /\ lastop.op = "new" => Len(Contents(lastop.args[1])) = 0
    /\ lastop.op = "is_empty" =>
           (lastop.ret <=> Len(Contents(lastop.args[1])) = 0)

\* is_empty() has answered false for a context that was pushed into.
C19_Witness ==
    /\ lastop.op = "is_empty"
    /\ lastop.ret = FALSE
    /\ Len(Contents(lastop.args[1])) >= 1

\* C20: the single-slot is_empty() returns true iff the context holds no
\* element, so it returns false for every context built by new(payload).
C20_V1IsEmptyIffNoElement ==
    v1obs.op = "is_empty" =>
        (v1obs.ret <=> ~is_some(v1ctx[v1obs.args[1]].context))

\* C16: two multi-slot contexts are equal iff their sequences have equal
\* length and the elements at each position are equal (same concrete type and
\* equal value); the comparison is order-sensitive.
C16_CtxEqPairwise ==
    entry = "ctx_eq" =>
        /\ status # "stack_overflow"
        /\ Finished =>
               (result <=>
                   /\ Len(lctx) = Len(rctx)
                   /\ \A k \in 1..Len(lctx) :
                          /\ as_ref(lctx[k]).ty = as_ref(rctx[k]).ty
                          /\ payload_eq(as_ref(lctx[k]).ty, as_ref(lctx[k]),
                                        as_ref(rctx[k])))

\* The partial order of two elements: that of the payload type when both
\* payloads have the same concrete type, none otherwise.
RefElemCmp(a, b) ==
    IF as_ref(a).ty = as_ref(b).ty
    THEN payload_partial_cmp(as_ref(a).ty, as_ref(a), as_ref(b))
    ELSE None

\* Lexicographic comparison of the sequences l and r from position k on.
RECURSIVE RefLexCmp(_, _, _)
RefLexCmp(l, r, k) ==
    IF k > Len(l) /\ k > Len(r) THEN Some("Equal")
    ELSE IF k > Len(l) THEN Some("Less")
    ELSE IF k > Len(r) THEN Some("Greater")
    ELSE IF RefElemCmp(l[k], r[k]) = Some("Equal") THEN RefLexCmp(l, r, k + 1)
    ELSE RefElemCmp(l[k], r[k])

\* C17: the ordering of two multi-slot contexts is lexicographic over their
\* element sequences: decided by the first position whose elements do not
\* compare Equal, None when the elements there are incomparable, and the
\* shorter sequence is Less when it is a prefix of the other.
C17_CtxPartialCmpLexicographic ==
    entry = "ctx_partial_cmp" =>
        /\ status # "stack_overflow"
        /\ Finished => result = RefLexCmp(lctx, rctx, 1)

\* C21: the single-slot get::<T>() returns Some iff the context holds an
\* element whose concrete payload type is T, and then refers to that payload;
\* for a context built by new(p: A), get::<A>() is Some and get::<B>() is None.
C21_V1GetIffType ==
    v1obs.op = "get" =>
        LET c == v1ctx[v1obs.args[1]]
            T == v1obs.args[2]
        IN /\ is_some(v1obs.ret) <=>
                  (is_some(c.context) /\ unwrap(c.context).data.ty = T)
           /\ is_some(v1obs.ret) => unwrap(v1obs.ret) = unwrap(c.context).data

\* get::<Context2>() on a context built by new(Context1 { .. }) returned None.
C21_Witness ==
    /\ v1obs.op = "get"
    /\ v1obs.args[2] = "Context2"
    /\ is_some(v1ctx[v1obs.args[1]].context)
    /\ unwrap(v1ctx[v1obs.args[1]].context).data.ty = "Context1"
    /\ v1obs.ret = None

\* C22: single-slot context equality is structural: two contexts that both
\* hold an element are equal iff the elements are equal (same concrete type,
\* equal payload value); two contexts with no element are equal; a context
\* with no element and one with an element are unequal.
C22_V1EqStructural ==
    entry = "v1_eq" =>
        /\ status # "stack_overflow"
        /\ Finished =>
               (result <=>
                   IF is_some(lctx) /\ is_some(rctx)
                   THEN /\ as_ref(unwrap(lctx)).ty = as_ref(unwrap(rctx)).ty
                        /\ payload_eq(as_ref(unwrap(lctx)).ty,
                                      as_ref(unwrap(lctx)), as_ref(unwrap(rctx)))
                   ELSE ~is_some(lctx) /\ ~is_some(rctx))

\* C23: the call chains started by == (eq -> eq_box -> payload ==) and by
\* partial_cmp (partial_cmp -> partial_cmp_box -> payload partial_cmp) on two
\* elements reach a result within those three calls and never run out of
\* stack, whether the payload types are equal or differ.
C23_ChainsTerminate ==
    entry \in {"eq", "partial_cmp"} =>
        /\ stack_depth <= 3
        /\ status # "stack_overflow"

\* Number of characters of a string: its bytes that do not continue a character.
CharCount(s) == Cardinality({k \in 1..Len(s) : s[k] # Cont})

\* C24: whenever the splitter returns Some((outer, inner)), inner is at least
\* two characters shorter than path and outer is no longer than the text
\* before the matching `[`, so every step of a caller that goes on with the
\* inner or the outer path makes the path strictly shorter.
C24_SplitShrinks ==
    [][op' \in {"recurse_inner", "recurse_outer"} =>
          LET outer == unwrap(Val(ret'))[1]
              inner == unwrap(Val(ret'))[2]
              open == unwrap(RefOpen(path))
          IN /\ CharCount(inner) + 2 <= CharCount(path)
             /\ Len(inner) + 2 <= Len(path)
             /\ Len(outer) <= open
             /\ CharCount(outer) <= CharCount(SubSeq(path, 1, open))
             /\ path' \in {outer, inner}
             /\ Len(path') < Len(path)]_vars

\* The caller has descended from `[[a]]` to `[a]`, which it can split again.
C24_Witness ==
    /\ op = "recurse_inner"
    /\ path = <<LBr, "a", RBr>>
    /\ ret = Ok(Some(<<<<>>, <<LBr, "a", RBr>>>>))

\* C25: the predicate and the splitter agree on every string:
\* is_package_relative_path(path) is true iff
\* split_package_relative_path_outer(path) returns Some.
C25_PredicateAgreesWithSplitter ==
    /\ op = "is_package_relative_path" =>
           /\ ~IsPanic(ret)
           /\ ~IsPanic(split_package_relative_path_outer(path))
           /\ Val(ret) <=> is_some(Val(split_package_relative_path_outer(path)))
    /\ op = "split_package_relative_path_outer" =>
           /\ ~IsPanic(ret)
           /\ ~IsPanic(is_package_relative_path(path))
           /\ is_some(Val(ret)) <=> Val(is_package_relative_path(path))

\* The splitter returned Some on `a[]`, where the predicate is true.
C25_Witness ==
    /\ op = "split_package_relative_path_outer"
    /\ path = <<"a", LBr, RBr>>
    /\ ret = Ok(Some(<<<<"a">>, <<>>>>))
    /\ is_package_relative_path(path) = Ok(TRUE)

\* Number of unescaped brackets b at the (0-based) byte indices of s strictly
\* between i and c.
CountBetween(s, i, c, b) ==
    Cardinality({k \in (i + 1)..(c - 1) : k < Len(s) /\ Unescaped(s, k + 1, b)})

\* C26: whenever find_matching_opening_delimiter(path, c) returns Some(i):
\* i < c, the character at i is `[`, it is not immediately preceded by a
\* backslash, and strictly between i and c there are as many unescaped `[`
\* as unescaped `]`.
C26_FoundOpenIsMatching ==
    (op = "find_matching_opening_delimiter" /\ is_some(Val(ret))) =>
        LET i == unwrap(Val(ret))
        IN /\ i < closing
           /\ At(path, i) = LBr
           /\ i = 0 \/ At(path, i - 1) # BSl
           /\ CountBetween(path, i, closing, LBr)
                  = CountBetween(path, i, closing, RBr)

\* The outer pair of `[[a]]`: one nested pair lies between the two indices.
C26_Witness ==
    /\ op = "find_matching_opening_delimiter"
    /\ path = <<LBr, LBr, "a", RBr, RBr>>
    /\ closing = 4
    /\ ret = Ok(Some(0))

\* C27: once get::<T>() returns the element at position k of a multi-slot
\* context, every later push and every later += on that context leaves
\* get::<T>() returning the element at the same position with the same value.
C27_FirstMatchStable ==
    [][\A s \in Slots, T \in PayloadTypes :
          (/\ \/ \E x \in PushPayloads : V2Push(s, x)
              \/ \E src \in Slots : V2AddAssign(s, src)
           /\ is_some(v2_get(bufs[ctxs[s]], T)))
              => v2_get(bufs'[ctxs'[s]], T) = v2_get(bufs[ctxs[s]], T)]_vars

\* A second Context1 was pushed behind a Context1 and a Context2 element:
\* get::<Context1>() still answers with the element at index 0.
C27_Witness ==
    /\ lastop.op = "push"
    /\ lastop.args[2].ty = "Context1"
    /\ LET c == Contents(lastop.args[1])
       IN /\ Len(c) = 3
          /\ as_ref(c[1]).ty = "Context1"
          /\ as_ref(c[2]).ty = "Context2"
          /\ as_ref(c[3]) = lastop.args[2]
          /\ as_ref(c[1]) # as_ref(c[3])
          /\ v2_get(c, "Context1") = Some(<<0, as_ref(c[1])>>)

\* The two replacements of unescape_delimiters in the order of the source,
\* and in the opposite order.
OpenThenClose(s) == replace(replace(s, <<BSl, LBr>>, <<LBr>>), <<BSl, RBr>>, <<RBr>>)

CloseThenOpen(s) == replace(replace(s, <<BSl, RBr>>, <<RBr>>), <<BSl, LBr>>, <<LBr>>)

\* C28: the two replacements of unescape_delimiters are order-independent:
\* on every string (every prefix of every input path) both orders give the
\* same string, so unescape_delimiters returns what it would return with its
\* two replacements swapped.
C28_ReplacementsCommute ==
    op = "unescape_delimiters" =>
        /\ \A n \in 0..Len(path) :
               OpenThenClose(SubSeq(path, 1, n)) = CloseThenOpen(SubSeq(path, 1, n))
        /\ ret = Ok(IF path = <<>> THEN path
                    ELSE LET m == find_matching_opening_delimiter(path,
                                                                  Len(path) - 1)
                             end == IF path[Len(path)] = RBr THEN Len(path)
                                    ELSE IF is_some(m) THEN unwrap(m)
                                    ELSE Len(path)
                         IN CloseThenOpen(SubSeq(path, 1, end))
                                \o SubSeq(path, end + 1, Len(path)))

\* A path with both escaped brackets and a doubled backslash was unescaped.
C28_Witness ==
    /\ op = "unescape_delimiters"
    /\ path = <<BSl, BSl, RBr, BSl, LBr>>
    /\ ret = Ok(<<BSl, RBr, LBr>>)

\* C29: under any interleaving of callers the preferred-resolver setting
\* behaves as one atomic register: what get_preferred_resolver reads under
\* the lock, and then returns, is None while no set has completed or when the
\* most recent completed set stored the empty string, and otherwise Some of
\* exactly the string of the most recent completed set, never a mixture.
C29_AtomicRegister ==
    /\ [][\A t \in Threads :
             GetRead(t) =>
                 local'[t] = IF completed = <<>> THEN None ELSE Some(completed)]_vars
    /\ [][\A t \in Threads :
             GetUnlock(t) =>
                 /\ local'[t] = local[t]
                 /\ local[t] \in {None} \cup {Some(n) : n \in ResolverNames \ {<<>>}}]_vars

\* A get has returned the string of a completed set while one thread waits
\* for the lock with another string and a third holds the lock and has
\* stored only the buffer of its string.
C29_Witness ==
    \E t \in Threads, u \in Threads, w \in Threads :
        /\ pc[t] = "got"
        /\ local[t] = Some(<<"a">>)
        /\ pc[u] = "set_lock"
        /\ pc[w] = "set_write_len"
        /\ local[w] = Some(<<"b", "b">>)

\* The sub-path a query resolves against the root.
SubPathOf(o) ==
    IF o = "library_path" THEN unwrap(metadata).library_path
    ELSE unwrap(metadata).resource_path

\* C30 (as stated): library_path() and resource_path() yield the root for an
\* empty sub-path, the sub-path for one starting with `/`, and otherwise
\* root + "/" + sub-path.
C30_RootSlashSub ==
    mobs.op \in {"library_path", "resource_path"} =>
        LET root == unwrap(metadata).plugin_path
            sub == SubPathOf(mobs.op)
        IN mobs.ret = IF sub = <<>> THEN root
                      ELSE IF sub[1] = Sep THEN sub
                      ELSE root \o <<Sep>> \o sub

\* C30 (amended): as above, except that the std build inserts no "/" when
\* the root is empty or already ends with "/".
C30_RootJoinedWithSub ==
    mobs.op \in {"library_path", "resource_path"} =>
        LET root == unwrap(metadata).plugin_path
            sub == SubPathOf(mobs.op)
        IN mobs.ret = IF sub = <<>> THEN root
                      ELSE IF sub[1] = Sep THEN sub
                      ELSE IF build = "std"
                              /\ (root = <<>> \/ root[Len(root)] = Sep)
                      THEN root \o sub
                      ELSE root \o <<Sep>> \o sub

\* The test resource_path_defaults: no ResourcePath in the JSON, Root "/root",
\* resource_path() is "/root/.".
C30_Witness ==
    /\ mobs.op = "resource_path"
    /\ build = "std"
    /\ unwrap(metadata).plugin_path = <<Sep, "r", "o", "o", "t">>
    /\ unwrap(metadata).resource_path = default_path
    /\ mobs.ret = <<Sep, "r", "o", "o", "t", Sep, ".">>

============================================================================
